---- MODULE Spec2Model ----
(***************************************************************************)
(* Model of the provider layer of alexisbouchez/ai: the four vendor        *)
(* facades (anthropic, openai, mistral, ollama), their stream decoders     *)
(* (one background producer goroutine per stream), the shared              *)
(* provider.StreamReader, and the response mappers.                        *)
(*                                                                         *)
(* Text (message content, argument text) is a sequence of tokens, so that  *)
(* concatenation is \o and the empty string is << >>.  Identifiers,        *)
(* finish reasons and error messages are atomic strings, "" when unset.    *)
(***************************************************************************)
EXTENDS Integers, Sequences, FiniteSets, TLC

\* Bounds of the exploration.
MaxFrames == 3
MaxRecv == 5
MaxClose == 2

\* A nil *int (anthropicStreamEvent.Index absent on the wire).
NoIndex == 0 - 1

Vendors == {"anthropic", "openai", "mistral", "ollama"}
HTTPVendors == {"anthropic", "openai", "mistral"}

VARIABLES
    vendor,        \* which facade's Stream was called
    initial,       \* the transport's answer to the initial request
    streamRet,     \* what the Stream call returned
    inputEnd,      \* how the producer's input ended: "", "eof", "error"
    wire,          \* the frames the producer has read from the transport so far
    pc,            \* producer goroutine: "call" (not started), "none" (never started),
                   \* "scan", "send", "ret", "done"
    pend,          \* the send the producer is blocked on (when pc = "send")
    dec,           \* anthropic decoder state: currentToolCallIndex, toolCallIndices
    chClosed,      \* close(events) has run
    bodyClosed,    \* resp.Body.Close() has run (HTTP vendors)
    doneClosed,    \* close(done) has run (ollama)
    panicked,      \* the program panicked
    ctxCancelled,  \* the request context is done
    closeCalls,    \* number of StreamReader.Close calls made
    reader,        \* StreamReader fields: done, err
    delivered,     \* what each Recv call returned, in order
    chatIn,        \* the wire response of the last Chat call
    chatOut,       \* the ChatResponse the last Chat call returned
    facade,        \* the provider's fields: apiKey, baseURL, model
    configured,    \* the argument of the latest call of each setter, and what
                   \* the latest setter returned
    reqIn,         \* the ChatRequest of the call made (a sequence of length <= 1)
    reqOut         \* the request that call put on the wire

vars == <<vendor, initial, streamRet, inputEnd, wire, pc, pend, dec, chClosed, bodyClosed, doneClosed,
          panicked, ctxCancelled, closeCalls, reader, delivered, chatIn, chatOut,
          facade, configured, reqIn, reqOut>>

streamVars == <<vendor, initial, streamRet, inputEnd, wire, pc, pend, dec, chClosed, bodyClosed, doneClosed,
                panicked, ctxCancelled, closeCalls, reader, delivered>>

chatVars == <<chatIn, chatOut>>

requestVars == <<facade, configured, reqIn, reqOut>>

-----------------------------------------------------------------------------
(* provider.StreamEvent, provider.ToolCall *)

ToolCall(id, type, index, name, arguments) ==
    [id |-> id, type |-> type, index |-> index, name |-> name, arguments |-> arguments]

StreamEvent(content, toolCalls, finishReason, err) ==
    [content |-> content, toolCalls |-> toolCalls, finishReason |-> finishReason, err |-> err]

EmptyEvent == StreamEvent(<< >>, << >>, "", "")

ErrorEvent(msg) == StreamEvent(<< >>, << >>, "", msg)

\* provider.ErrStreamClosed, a value distinct from every other error.
ErrStreamClosed == "ErrStreamClosed"

-----------------------------------------------------------------------------
(* encoding/json on tool input.  Decoded values are "nil" (no value), "{}" *)
(* and "{q}" (an object with one member); Marshal writes the canonical     *)
(* text, Unmarshal also accepts a text with insignificant white space and  *)
(* leaves the target nil on any other text.                                *)

JSONValues == {"nil", "{}", "{q}"}

Marshal(v) ==
    CASE v = "{}"  -> <<"{", "}">>
      [] v = "{q}" -> <<"{", "q", "}">>
      [] OTHER     -> <<"null">>

Unmarshal(text) ==
    CASE text = <<"{", "}">>           -> "{}"
      [] text = <<"{", "q", "}">>      -> "{q}"
      [] text = <<"{", " ", "q", "}">> -> "{q}"
      [] text = <<"null">>             -> "nil"
      [] OTHER                         -> "nil"

-----------------------------------------------------------------------------
(* Transport frames.  One record shape for every vendor:                   *)
(*   kind     what the line / chunk is                                     *)
(*   text     content fragment or partial_json                             *)
(*   index    wire index (NoIndex when absent)                             *)
(*   id, name tool-call identifier and function name                       *)
(*   reason   stop_reason / finish_reason / done_reason                    *)
(*   calls    the tool calls of a chunk: wire tool calls (openai, mistral) *)
(*            or <<name, decoded arguments>> pairs (ollama)                *)
(* Kinds common to the line-oriented vendors: "nondata" is a line without  *)
(* the "data: " prefix, "badjson" a data line whose payload is not JSON,   *)
(* "badschema" a data line whose payload is JSON of the wrong shape (a     *)
(* number where the struct has a string); json.Unmarshal returns an error  *)
(* on both.                                                                *)

Frame(kind, text, index, id, name, reason, calls) ==
    [kind |-> kind, text |-> text, index |-> index, id |-> id, name |-> name,
     reason |-> reason, calls |-> calls]

Simple(kind) == Frame(kind, << >>, NoIndex, "", "", "", << >>)

FnName(id) == IF id = "x" THEN "f" ELSE "g"

AnthropicFrames ==
    {Simple("nondata"), Simple("badjson"), Simple("badschema"), Simple("message_stop")}
    \cup {Frame("text_delta", t, NoIndex, "", "", "", << >>) : t \in {<<"H">>, <<"i">>}}
    \cup {Frame("input_json_delta", t, i, "", "", "", << >>) :
            t \in {<<"{">>, <<"}">>}, i \in {NoIndex, 1}}
    \cup {Frame("tool_use_start", << >>, i, id, FnName(id), "", << >>) :
            id \in {"x", "y"}, i \in {NoIndex, 1}}
    \cup {Frame("message_delta", << >>, NoIndex, "", "", r, << >>) :
            r \in {"", "end_turn", "tool_use", "max_tokens"}}

\* The frames explored under every interleaving of the consumer's calls:
\* one frame of each kind the producer treats differently.
AnthropicFramesSmall ==
    {Simple("nondata"), Simple("message_stop"),
     Frame("text_delta", <<"H">>, NoIndex, "", "", "", << >>),
     Frame("message_delta", << >>, NoIndex, "", "", "end_turn", << >>)}

-----------------------------------------------------------------------------
(* anthropic.Stream: the body of the scan loop.  The result says whether   *)
(* an event is sent, which, whether the goroutine returns afterwards, and  *)
(* the decoder state after the frame.                                      *)

Decoded(emit, ev, sel, ret, d) ==
    [emit |-> emit, ev |-> ev, sel |-> sel, ret |-> ret, dec |-> d]

Skip(d) == Decoded(FALSE, EmptyEvent, "bare", FALSE, d)

DecInit == [currentToolCallIndex |-> 0, toolCallIndices |-> << >>]

AnthropicFinishReason(stopReason) ==
    IF stopReason = "tool_use" THEN "tool_calls" ELSE stopReason

AnthropicDecode(f, d) ==
    CASE f.kind = "text_delta" ->
            Decoded(TRUE, StreamEvent(f.text, << >>, "", ""), "bare", FALSE, d)
      [] f.kind = "input_json_delta" ->
            IF f.index # NoIndex
            THEN Decoded(TRUE,
                         StreamEvent(<< >>, <<ToolCall("", "", f.index, "", f.text)>>, "", ""),
                         "bare", FALSE, d)
            ELSE Skip(d)
      [] f.kind = "tool_use_start" ->
            LET idx == IF f.index # NoIndex THEN f.index ELSE d.currentToolCallIndex
            IN  Decoded(TRUE,
                        StreamEvent(<< >>, <<ToolCall(f.id, "function", idx, f.name, << >>)>>, "", ""),
                        "bare", FALSE,
                        [currentToolCallIndex |-> d.currentToolCallIndex + 1,
                         toolCallIndices |->
                            Append(SelectSeq(d.toolCallIndices, LAMBDA e : e[1] # f.id),
                                   <<f.id, idx>>)])
      [] f.kind = "message_stop" ->
            Decoded(TRUE, StreamEvent(<< >>, << >>, "stop", ""), "bare", TRUE, d)
      [] f.kind = "message_delta" ->
            IF f.reason # ""
            THEN Decoded(TRUE, StreamEvent(<< >>, << >>, AnthropicFinishReason(f.reason), ""),
                         "bare", FALSE, d)
            ELSE Skip(d)
      [] OTHER -> Skip(d)

-----------------------------------------------------------------------------
(* openai.Stream and mistral.Stream (the same code): the body of the scan  *)
(* loop.                                                                   *)

WireStart == ToolCall("x", "function", 1, "f", << >>)
WireFragment == ToolCall("", "", 1, "", <<"{">>)

OpenAIFrames ==
    {Simple("nondata"), Simple("done"), Simple("badjson"), Simple("badschema"),
     Simple("nochoices")}
    \cup {Frame("chunk", t, NoIndex, "", "", r, << >>) :
            t \in {<< >>, <<"H">>, <<"i">>}, r \in {"", "stop"}}
    \cup {Frame("chunk", << >>, NoIndex, "", "", "", <<c>>) : c \in {WireStart, WireFragment}}
    \cup {Frame("chunk", << >>, NoIndex, "", "", "tool_calls", <<WireFragment>>)}

OpenAIFramesSmall ==
    {Simple("nondata"), Simple("done"), Simple("badjson"),
     Frame("chunk", <<"H">>, NoIndex, "", "", "", << >>),
     Frame("chunk", << >>, NoIndex, "", "", "stop", << >>)}

OpenAIToolCalls(calls) ==
    [i \in 1..Len(calls) |->
        ToolCall(calls[i].id, calls[i].type, calls[i].index, calls[i].name, calls[i].arguments)]

\* OpenAIDecode without the return after the error event.
OpenAIDecodeNoReturn(f, d) ==
    CASE f.kind = "done" -> Decoded(FALSE, EmptyEvent, "bare", TRUE, d)
      [] f.kind \in {"badjson", "badschema"} ->
            Decoded(TRUE, ErrorEvent("failed to parse chunk"), "bare", FALSE, d)
      [] f.kind = "chunk" ->
            Decoded(TRUE, StreamEvent(f.text, OpenAIToolCalls(f.calls), f.reason, ""),
                    "ctx", FALSE, d)
      [] OTHER -> Skip(d)

OpenAIDecode(f, d) ==
    CASE f.kind = "done" -> Decoded(FALSE, EmptyEvent, "bare", TRUE, d)
      [] f.kind \in {"badjson", "badschema"} ->
            Decoded(TRUE, ErrorEvent("failed to parse chunk"), "bare", TRUE, d)
      [] f.kind = "chunk" ->
            Decoded(TRUE, StreamEvent(f.text, OpenAIToolCalls(f.calls), f.reason, ""),
                    "ctx", FALSE, d)
      [] OTHER -> Skip(d)

-----------------------------------------------------------------------------
(* ollama.Stream: the callback handed to client.Chat, up to its select.    *)

OllamaFrames ==
    {Frame(k[1], t, NoIndex, "", "", k[2], c) :
        k \in {<<"chunk", "">>, <<"chunk_done", "stop">>, <<"chunk_done", "length">>},
        t \in {<< >>, <<"H">>},
        c \in {<< >>, <<<<"f", "{q}">>>>}}
    \cup {Frame("chunk", << >>, NoIndex, "", "", "", <<<<"g", "{}">>>>)}

OllamaFramesSmall ==
    {Frame("chunk", <<"H">>, NoIndex, "", "", "", << >>),
     Frame("chunk_done", << >>, NoIndex, "", "", "stop", << >>)}

CallID(i) == <<"call_", i>>

OllamaToolCalls(calls) ==
    [i \in 1..Len(calls) |->
        ToolCall(CallID(i - 1), "function", i - 1, calls[i][1], Marshal(calls[i][2]))]

OllamaFinishReason(done, doneReason, toolCalls) ==
    IF ~done THEN ""
    ELSE IF doneReason = "length" THEN "length"
    ELSE IF Len(toolCalls) > 0 THEN "tool_calls"
    ELSE "stop"

OllamaDecode(f, d) ==
    LET toolCalls == OllamaToolCalls(f.calls)
    IN  Decoded(TRUE,
                StreamEvent(f.text, toolCalls,
                            OllamaFinishReason(f.kind = "chunk_done", f.reason, toolCalls), ""),
                "ctxdone", FALSE, d)

-----------------------------------------------------------------------------

Decode(v, f, d) ==
    CASE v = "anthropic" -> AnthropicDecode(f, d)
      [] v = "ollama"    -> OllamaDecode(f, d)
      [] OTHER           -> OpenAIDecode(f, d)

Frames(v) ==
    CASE v = "anthropic" -> AnthropicFrames
      [] v = "ollama"    -> OllamaFrames
      [] OTHER           -> OpenAIFrames

FramesSmall(v) ==
    CASE v = "anthropic" -> AnthropicFramesSmall
      [] v = "ollama"    -> OllamaFramesSmall
      [] OTHER           -> OpenAIFramesSmall

-----------------------------------------------------------------------------
(* The Stream call up to its return.  The initial request is answered with *)
(* a success status ("ok"), with a non-success status and a body           *)
(* ("status"), or not at all ("connfail").                                 *)

Initial(outcome, status, body) == [outcome |-> outcome, status |-> status, body |-> body]

Initials ==
    {Initial("ok", 200, ""), Initial("connfail", 0, ""),
     Initial("status", 404, "not found"), Initial("status", 500, "oops")}

StreamReturn(hasReader, err, status, body) ==
    [returned |-> TRUE, reader |-> hasReader, err |-> err, status |-> status, body |-> body]

NotReturned == [returned |-> FALSE, reader |-> FALSE, err |-> "", status |-> 0, body |-> ""]

\* anthropic, openai, mistral: httpClient.Do and the status check run in the
\* caller; the goroutine is started only after them.  ollama: the request
\* is made by client.Chat inside the goroutine, Stream itself returns the
\* reader whatever the server will answer.
Stream ==
    /\ pc = "call"
    /\ IF vendor \in HTTPVendors /\ initial.outcome = "connfail"
       THEN /\ streamRet' = StreamReturn(FALSE, "failed to send request", 0, "")
            /\ pc' = "none"
            /\ UNCHANGED bodyClosed
       ELSE IF vendor \in HTTPVendors /\ initial.outcome = "status"
       THEN /\ streamRet' = StreamReturn(FALSE, "API error", initial.status, initial.body)
            /\ pc' = "none"
            /\ bodyClosed' = TRUE
       ELSE /\ streamRet' = StreamReturn(TRUE, "", 0, "")
            /\ pc' = "scan"
            /\ UNCHANGED bodyClosed
    /\ UNCHANGED <<vendor, initial, inputEnd, wire, pend, dec, chClosed, doneClosed, panicked,
                   ctxCancelled, closeCalls, reader, delivered, chatVars, requestVars>>

-----------------------------------------------------------------------------
(* The producer goroutine. *)

NoPend == [ev |-> EmptyEvent, sel |-> "none", ret |-> FALSE]

\* Scan with the channel send not waiting for the receiver: the next line
\* is read while the previous event is still to be received.
ScanAhead(f) ==
    /\ ~panicked
    /\ pc \in {"scan", "send"}
    /\ pc = "send" => ~pend.ret
    /\ initial.outcome = "ok"
    /\ Len(wire) < MaxFrames
    /\ LET r == Decode(vendor, f, dec) IN
        /\ wire' = Append(wire, f)
        /\ dec' = r.dec
        /\ IF r.emit
           THEN pc' = "send" /\ pend' = [ev |-> r.ev, sel |-> r.sel, ret |-> r.ret]
           ELSE IF pc = "send" /\ ~r.ret
           THEN UNCHANGED <<pc, pend>>
           ELSE pc' = (IF r.ret THEN "ret" ELSE "scan") /\ pend' = NoPend
    /\ UNCHANGED <<vendor, initial, streamRet, inputEnd, chClosed, bodyClosed, doneClosed,
                   panicked, ctxCancelled, closeCalls, reader, delivered, chatVars, requestVars>>

\* scanner.Scan() returned true with line f; the loop body runs up to its
\* send (or to the top of the loop when the frame is skipped).  A line that
\* was buffered before the body was closed is still returned.
Scan(f) ==
    /\ ~panicked
    /\ pc = "scan"
    /\ initial.outcome = "ok"
    /\ Len(wire) < MaxFrames
    /\ LET r == Decode(vendor, f, dec) IN
        /\ wire' = Append(wire, f)
        /\ dec' = r.dec
        /\ IF r.emit
           THEN pc' = "send" /\ pend' = [ev |-> r.ev, sel |-> r.sel, ret |-> r.ret]
           ELSE pc' = (IF r.ret THEN "ret" ELSE "scan") /\ pend' = NoPend
    /\ UNCHANGED <<vendor, initial, streamRet, inputEnd, chClosed, bodyClosed, doneClosed, panicked, ctxCancelled,
                   closeCalls, reader, delivered, chatVars, requestVars>>

\* ScanEnd with a finishReason "stop" sent when the input ends.
ScanEndForcedStop ==
    /\ ~panicked
    /\ pc = "scan"
    /\ vendor \in HTTPVendors
    /\ \E e \in {"eof", "error"} : inputEnd' = e
    /\ pc' = "send"
    /\ pend' = [ev |-> StreamEvent(<< >>, << >>, "stop", ""), sel |-> "bare", ret |-> TRUE]
    /\ UNCHANGED <<vendor, initial, streamRet, wire, dec, chClosed, bodyClosed, doneClosed,
                   panicked, ctxCancelled, closeCalls, reader, delivered, chatVars, requestVars>>

\* scanner.Scan() returned false: end of input ("eof"), or a read error
\* ("error", among them the body closed by Close and the request context
\* cancelled).  scanner.Err() is not consulted: the loop just ends.
ScanEnd ==
    /\ ~panicked
    /\ pc = "scan"
    /\ vendor \in HTTPVendors
    /\ \E e \in {"eof", "error"} : inputEnd' = e
    /\ pc' = "ret"
    /\ UNCHANGED <<vendor, initial, streamRet, wire, pend, dec, chClosed, bodyClosed, doneClosed, panicked,
                   ctxCancelled, closeCalls, reader, delivered, chatVars, requestVars>>

\* ollama: client.Chat returned nil (the response ended).
ChatEnd ==
    /\ ~panicked
    /\ pc = "scan"
    /\ vendor = "ollama"
    /\ initial.outcome = "ok"
    /\ inputEnd' = "eof"
    /\ pc' = "ret"
    /\ UNCHANGED <<vendor, initial, streamRet, wire, pend, dec, chClosed, bodyClosed, doneClosed, panicked,
                   ctxCancelled, closeCalls, reader, delivered, chatVars, requestVars>>

\* ollama: client.Chat returned an error of its own (the server answered
\* with a non-success status, the transport failed, or the request context
\* was cancelled); the goroutine sends it.
ChatFail ==
    /\ ~panicked
    /\ pc = "scan"
    /\ vendor = "ollama"
    /\ \E msg \in {IF initial.outcome = "status" THEN "status error" ELSE "transport error"}
                   \cup (IF ctxCancelled THEN {"context canceled"} ELSE {}) :
          pend' = [ev |-> ErrorEvent(msg), sel |-> "bare", ret |-> TRUE]
    /\ inputEnd' = "error"
    /\ pc' = "send"
    /\ UNCHANGED <<vendor, initial, streamRet, wire, dec, chClosed, bodyClosed, doneClosed, panicked,
                   ctxCancelled, closeCalls, reader, delivered, chatVars, requestVars>>

\* What the producer does when its select takes a branch other than the
\* send: openai and mistral return; ollama's callback returns the error,
\* client.Chat returns it, and the goroutine sends it as an error event.
AfterSelect(msg) ==
    IF vendor = "ollama"
    THEN pc' = "send" /\ pend' = [ev |-> ErrorEvent(msg), sel |-> "bare", ret |-> TRUE]
    ELSE pc' = "ret" /\ pend' = NoPend

\* select: case <-ctx.Done()
SelectCtxDone ==
    /\ ~panicked
    /\ pc = "send"
    /\ pend.sel \in {"ctx", "ctxdone"}
    /\ ctxCancelled
    /\ AfterSelect("context canceled")
    /\ UNCHANGED <<vendor, initial, streamRet, inputEnd, wire, dec, chClosed, bodyClosed, doneClosed, panicked,
                   ctxCancelled, closeCalls, reader, delivered, chatVars, requestVars>>

\* select: case <-done
SelectDone ==
    /\ ~panicked
    /\ pc = "send"
    /\ pend.sel = "ctxdone"
    /\ doneClosed
    /\ AfterSelect("stream closed")
    /\ UNCHANGED <<vendor, initial, streamRet, inputEnd, wire, dec, chClosed, bodyClosed, doneClosed, panicked,
                   ctxCancelled, closeCalls, reader, delivered, chatVars, requestVars>>

\* Return with the event channel left open.
ReturnKeepsOpen ==
    /\ ~panicked
    /\ pc = "ret"
    /\ pc' = "done"
    /\ bodyClosed' = (bodyClosed \/ vendor \in HTTPVendors)
    /\ UNCHANGED <<vendor, initial, streamRet, inputEnd, wire, pend, dec, chClosed, doneClosed, panicked,
                   ctxCancelled, closeCalls, reader, delivered, chatVars, requestVars>>

\* The goroutine returns: the deferred resp.Body.Close() and close(events).
Return ==
    /\ ~panicked
    /\ pc = "ret"
    /\ pc' = "done"
    /\ chClosed' = TRUE
    /\ bodyClosed' = (bodyClosed \/ vendor \in HTTPVendors)
    /\ UNCHANGED <<vendor, initial, streamRet, inputEnd, wire, pend, dec, doneClosed, panicked, ctxCancelled,
                   closeCalls, reader, delivered, chatVars, requestVars>>

-----------------------------------------------------------------------------
(* provider.StreamReader *)

Result(ev, err) == [ev |-> ev, err |-> err, afterClose |-> closeCalls > 0]

\* RecvDone with the stored error returned in place of ErrStreamClosed.
RecvDoneStoredErr ==
    /\ reader.done
    /\ delivered' = Append(delivered, Result(EmptyEvent, reader.err))
    /\ UNCHANGED <<vendor, initial, streamRet, inputEnd, wire, pc, pend, dec, chClosed, bodyClosed, doneClosed, panicked,
                   ctxCancelled, closeCalls, reader, chatVars, requestVars>>

\* Recv, s.done already set.
RecvDone ==
    /\ reader.done
    /\ delivered' = Append(delivered, Result(EmptyEvent, ErrStreamClosed))
    /\ UNCHANGED <<vendor, initial, streamRet, inputEnd, wire, pc, pend, dec, chClosed, bodyClosed, doneClosed, panicked,
                   ctxCancelled, closeCalls, reader, chatVars, requestVars>>

\* Recv, the channel receive meets the producer's send.
RecvEvent ==
    /\ ~reader.done
    /\ pc = "send"
    /\ delivered' = Append(delivered, Result(pend.ev, pend.ev.err))
    /\ reader' = [reader EXCEPT !.err = IF pend.ev.err # "" THEN pend.ev.err ELSE @]
    /\ pc' = (IF pend.ret THEN "ret" ELSE "scan")
    /\ pend' = NoPend
    /\ UNCHANGED <<vendor, initial, streamRet, inputEnd, wire, dec, chClosed, bodyClosed, doneClosed, panicked,
                   ctxCancelled, closeCalls, chatVars, requestVars>>

\* Recv, the channel is closed.
RecvClosed ==
    /\ ~reader.done
    /\ chClosed
    /\ reader' = [reader EXCEPT !.done = TRUE]
    /\ delivered' = Append(delivered, Result(EmptyEvent, ErrStreamClosed))
    /\ UNCHANGED <<vendor, initial, streamRet, inputEnd, wire, pc, pend, dec, chClosed, bodyClosed, doneClosed, panicked,
                   ctxCancelled, closeCalls, chatVars, requestVars>>

Recv ==
    /\ streamRet.reader
    /\ ~panicked
    /\ Len(delivered) < MaxRecv
    /\ (RecvDone \/ RecvEvent \/ RecvClosed)

\* Close with a hook that closed the event channel itself.
CloseClosesEvents ==
    /\ streamRet.reader
    /\ ~panicked
    /\ closeCalls < MaxClose
    /\ closeCalls' = closeCalls + 1
    /\ chClosed' = TRUE
    /\ IF vendor \in HTTPVendors
       THEN bodyClosed' = TRUE /\ UNCHANGED <<doneClosed, panicked>>
       ELSE /\ doneClosed' = TRUE
            /\ panicked' = doneClosed
            /\ UNCHANGED bodyClosed
    /\ UNCHANGED <<vendor, initial, streamRet, inputEnd, wire, pc, pend, dec, ctxCancelled, reader,
                   delivered, chatVars, requestVars>>

\* Close: runs the close hook (s.close is never nil for a reader made by Stream).
Close ==
    /\ streamRet.reader
    /\ ~panicked
    /\ closeCalls < MaxClose
    /\ closeCalls' = closeCalls + 1
    /\ IF vendor \in HTTPVendors
       THEN bodyClosed' = TRUE /\ UNCHANGED <<doneClosed, panicked>>
       ELSE /\ doneClosed' = TRUE
            /\ panicked' = doneClosed
            /\ UNCHANGED bodyClosed
    /\ UNCHANGED <<vendor, initial, streamRet, inputEnd, wire, pc, pend, dec, chClosed, ctxCancelled, reader,
                   delivered, chatVars, requestVars>>

\* The caller cancels the context passed to Stream.
Cancel ==
    /\ streamRet.reader
    /\ ~panicked
    /\ ~ctxCancelled
    /\ ctxCancelled' = TRUE
    /\ UNCHANGED <<vendor, initial, streamRet, inputEnd, wire, pc, pend, dec, chClosed, bodyClosed, doneClosed, panicked,
                   closeCalls, reader, delivered, chatVars, requestVars>>

-----------------------------------------------------------------------------
(* The response mappers (toProviderResponse) and the Chat call that        *)
(* applies them.                                                           *)

ChatResponse(content, toolCalls, finishReason, prompt, completion, total) ==
    [content |-> content, toolCalls |-> toolCalls, finishReason |-> finishReason,
     promptTokens |-> prompt, completionTokens |-> completion, totalTokens |-> total]

\* anthropicContent
Block(type, text, id, name, input) ==
    [type |-> type, text |-> text, id |-> id, name |-> name, input |-> input]

AnthropicBlocks ==
    {Block("text", t, "", "", "nil") : t \in {<<"H">>, <<"i">>}}
    \cup {Block("tool_use", << >>, "x", "f", "{q}"), Block("tool_use", << >>, "y", "g", "nil")}

AnthropicStopReasons == {"end_turn", "max_tokens", "tool_use", "stop_sequence"}

AnthropicResponses ==
    {[content |-> c, reason |-> r, prompt |-> u[1], completion |-> u[2], total |-> 0] :
        c \in {<< >>} \cup {<<b>> : b \in AnthropicBlocks}
               \cup {<<a, b>> : a \in AnthropicBlocks, b \in AnthropicBlocks},
        r \in AnthropicStopReasons,
        u \in {<<0, 0>>, <<1, 2>>}}

RECURSIVE AnthropicText(_)
AnthropicText(blocks) ==
    IF blocks = << >> THEN << >>
    ELSE (IF Head(blocks).type = "text" THEN Head(blocks).text ELSE << >>)
         \o AnthropicText(Tail(blocks))

\* A mapper that numbered each tool call by its position among the tool
\* calls instead of by its block's position.
RECURSIVE AnthropicToolCallsByCallOrder(_, _)
AnthropicToolCallsByCallOrder(blocks, i) ==
    IF i > Len(blocks) THEN << >>
    ELSE (IF blocks[i].type = "tool_use"
          THEN <<ToolCall(blocks[i].id, "function",
                          Cardinality({j \in 1..(i - 1) : blocks[j].type = "tool_use"}),
                          blocks[i].name, Marshal(blocks[i].input))>>
          ELSE << >>)
         \o AnthropicToolCallsByCallOrder(blocks, i + 1)

RECURSIVE AnthropicToolCalls(_, _)
AnthropicToolCalls(blocks, i) ==
    IF i > Len(blocks) THEN << >>
    ELSE (IF blocks[i].type = "tool_use"
          THEN <<ToolCall(blocks[i].id, "function", i - 1, blocks[i].name,
                          Marshal(blocks[i].input))>>
          ELSE << >>)
         \o AnthropicToolCalls(blocks, i + 1)

AnthropicMapFinish(stopReason) ==
    IF stopReason = "tool_use" THEN "tool_calls"
    ELSE IF stopReason = "end_turn" THEN "stop"
    ELSE stopReason

AnthropicToProviderResponse(resp) ==
    ChatResponse(AnthropicText(resp.content), AnthropicToolCalls(resp.content, 1),
                 AnthropicMapFinish(resp.reason),
                 resp.prompt, resp.completion, resp.prompt + resp.completion)

\* openaiChatCompletionResponse / mistralChatCompletionResponse with one
\* choice; content is a *string, nil when absent.
OpenAIResponses ==
    {[content |-> c, calls |-> k, reason |-> r,
      prompt |-> u[1], completion |-> u[2], total |-> u[3]] :
        c \in {[nil |-> TRUE, text |-> << >>], [nil |-> FALSE, text |-> <<"H">>]},
        k \in {<< >>, <<ToolCall("x", "", 0, "f", <<"{", "q", "}">>)>>,
                      <<ToolCall("y", "function", 1, "g", <<"{">>)>>},
        r \in {"stop", "length", "tool_calls", "content_filter"},
        u \in {<<0, 0, 0>>, <<1, 2, 3>>, <<1, 2, 0>>}}

OpenAIMapToolCalls(calls) ==
    [j \in 1..Len(calls) |->
        ToolCall(calls[j].id, IF calls[j].type = "" THEN "function" ELSE calls[j].type,
                 calls[j].index, calls[j].name, calls[j].arguments)]

OpenAIToProviderResponse(resp) ==
    ChatResponse(IF resp.content.nil THEN << >> ELSE resp.content.text,
                 OpenAIMapToolCalls(resp.calls), resp.reason,
                 resp.prompt, resp.completion, resp.total)

\* api.ChatResponse (ollama)
OllamaResponses ==
    {[content |-> c, calls |-> k, reason |-> r,
      prompt |-> u[1], completion |-> u[2], total |-> 0] :
        c \in {<< >>, <<"H">>},
        k \in {<< >>, <<<<"f", "{q}">>>>, <<<<"f", "{q}">>, <<"g", "{}">>>>},
        r \in {"", "stop", "length", "load"},
        u \in {<<0, 0>>, <<1, 2>>}}

OllamaMapToolCalls(calls) ==
    [i \in 1..Len(calls) |->
        ToolCall(CallID(i - 1), "function", i - 1, calls[i][1], Marshal(calls[i][2]))]

OllamaMapFinish(doneReason, toolCalls) ==
    IF doneReason = "length" THEN "length"
    ELSE IF Len(toolCalls) > 0 THEN "tool_calls"
    ELSE "stop"

OllamaToProviderResponse(resp) ==
    LET toolCalls == OllamaMapToolCalls(resp.calls)
    IN  ChatResponse(resp.content, toolCalls,
                     OllamaMapFinish(resp.reason, toolCalls),
                     resp.prompt, resp.completion, resp.prompt + resp.completion)

Responses(v) ==
    CASE v = "anthropic" -> AnthropicResponses
      [] v = "ollama"    -> OllamaResponses
      [] OTHER           -> OpenAIResponses

ToProviderResponse(v, resp) ==
    CASE v = "anthropic" -> AnthropicToProviderResponse(resp)
      [] v = "ollama"    -> OllamaToProviderResponse(resp)
      [] OTHER           -> OpenAIToProviderResponse(resp)

\* Chat: the transport answered with status 200 and body resp.
Chat(resp) ==
    /\ chatIn' = <<resp>>
    /\ chatOut' = <<ToProviderResponse(vendor, resp)>>
    /\ UNCHANGED <<streamVars, requestVars>>

-----------------------------------------------------------------------------
(* The facade: New and the configuration setters.  A behaviour configures  *)
(* the provider and then makes one call; `configured` remembers what the   *)
(* caller passed to each setter last.                                      *)

DefaultModel(v) ==
    CASE v = "anthropic" -> "claude-sonnet-4-20250514"
      [] v = "openai"    -> "gpt-4o"
      [] v = "mistral"   -> "mistral-large-latest"
      [] OTHER           -> "llama3.2"

DefaultBaseURL(v) ==
    CASE v = "anthropic" -> "https://api.anthropic.com"
      [] v = "openai"    -> "https://api.openai.com"
      [] v = "mistral"   -> "https://api.mistral.ai"
      [] OTHER           -> "http://localhost:11434"

New(v) == [apiKey |-> "", baseURL |-> DefaultBaseURL(v), model |-> DefaultModel(v)]

NotConfigured == [apiKey |-> << >>, baseURL |-> << >>, model |-> << >>, returned |-> ""]

KeyArgs == {"k1", "k2"}
URLArgs == {"http://u1"}
ModelArgs == {"", "m1"}

\* ollama's WithAPIKey assigns nothing: the struct has no key field.
WithAPIKey(key) ==
    /\ reqIn = << >>
    /\ facade' = IF vendor = "ollama" THEN facade ELSE [facade EXCEPT !.apiKey = key]
    /\ configured' = [configured EXCEPT !.apiKey = <<key>>, !.returned = "receiver"]
    /\ UNCHANGED <<streamVars, chatVars, reqIn, reqOut>>

WithBaseURL(url) ==
    /\ reqIn = << >>
    /\ facade' = [facade EXCEPT !.baseURL = url]
    /\ configured' = [configured EXCEPT !.baseURL = <<url>>, !.returned = "receiver"]
    /\ UNCHANGED <<streamVars, chatVars, reqIn, reqOut>>

WithModel(model) ==
    /\ reqIn = << >>
    /\ facade' = [facade EXCEPT !.model = model]
    /\ configured' = [configured EXCEPT !.model = <<model>>, !.returned = "receiver"]
    /\ UNCHANGED <<streamVars, chatVars, reqIn, reqOut>>

-----------------------------------------------------------------------------
(* provider.ChatRequest and provider.Message.  A *int is a record: set     *)
(* says whether the pointer is non-nil.                                    *)

NilInt == [set |-> FALSE, value |-> 0]

IntPtr(n) == [set |-> TRUE, value |-> n]

Message(role, content, toolCalls, toolCallId) ==
    [role |-> role, content |-> content, toolCalls |-> toolCalls, toolCallId |-> toolCallId]

ChatRequest(model, maxTokens, messages) ==
    [model |-> model, maxTokens |-> maxTokens, messages |-> messages]

\* The request as it leaves the process: where it goes, the credential in
\* its header, and the fields of its body.
WireRequest(url, key, model, system, maxTokens, messages) ==
    [url |-> url, key |-> key, model |-> model, system |-> system,
     maxTokens |-> maxTokens, messages |-> messages]

\* One record shape for the messages of every vendor: content is a *string
\* (openai, mistral) or a string, blocks are anthropicContent values, calls
\* are wire tool calls (openai, mistral) or <<name, decoded arguments>>
\* pairs (ollama).
WireMessage(role, content, blocks, calls, toolCallId) ==
    [role |-> role, content |-> content, blocks |-> blocks, calls |-> calls,
     toolCallId |-> toolCallId]

NilText == [nil |-> TRUE, text |-> << >>]

Text(t) == [nil |-> FALSE, text |-> t]

-----------------------------------------------------------------------------
(* anthropic.toAnthropicRequest *)

DefaultMaxTokens == 8192

AnthropicContent(type, text, id, name, input, toolUseId, content) ==
    [type |-> type, text |-> text, id |-> id, name |-> name, input |-> input,
     toolUseId |-> toolUseId, content |-> content]

\* The system prompt is assigned at every system message.
RECURSIVE AnthropicSystem(_)
AnthropicSystem(msgs) ==
    IF msgs = << >> THEN << >>
    ELSE IF msgs[Len(msgs)].role = "system" THEN msgs[Len(msgs)].content
    ELSE AnthropicSystem(SubSeq(msgs, 1, Len(msgs) - 1))

AnthropicInput(arguments) ==
    IF arguments # << >> THEN Unmarshal(arguments) ELSE "nil"

AnthropicAssistantContent(msg) ==
    (IF msg.content # << >>
     THEN <<AnthropicContent("text", msg.content, "", "", "nil", "", << >>)>>
     ELSE << >>)
    \o [j \in 1..Len(msg.toolCalls) |->
          AnthropicContent("tool_use", << >>, msg.toolCalls[j].id, msg.toolCalls[j].name,
                           AnthropicInput(msg.toolCalls[j].arguments), "", << >>)]

AnthropicMessage(msg) ==
    CASE msg.role = "user" ->
            <<WireMessage("user", NilText,
                          <<AnthropicContent("text", msg.content, "", "", "nil", "", << >>)>>,
                          << >>, "")>>
      [] msg.role = "assistant" ->
            LET content == AnthropicAssistantContent(msg)
            IN  IF Len(content) > 0
                THEN <<WireMessage("assistant", NilText, content, << >>, "")>>
                ELSE << >>
      [] msg.role = "tool" ->
            <<WireMessage("user", NilText,
                          <<AnthropicContent("tool_result", << >>, "", "", "nil",
                                             msg.toolCallId, msg.content)>>,
                          << >>, "")>>
      [] OTHER -> << >>

RECURSIVE AnthropicMessages(_)
AnthropicMessages(msgs) ==
    IF msgs = << >> THEN << >>
    ELSE AnthropicMessage(Head(msgs)) \o AnthropicMessages(Tail(msgs))

\* AnthropicMaxTokens with a zero taken for an unset value.
AnthropicMaxTokensZeroUnset(maxTokens) ==
    IF maxTokens.set /\ maxTokens.value # 0 THEN IntPtr(maxTokens.value)
    ELSE IntPtr(DefaultMaxTokens)

AnthropicMaxTokens(maxTokens) ==
    IF maxTokens.set THEN IntPtr(maxTokens.value) ELSE IntPtr(DefaultMaxTokens)

ToAnthropicRequest(req, model) ==
    [model |-> model, system |-> AnthropicSystem(req.messages),
     maxTokens |-> AnthropicMaxTokens(req.maxTokens),
     messages |-> AnthropicMessages(req.messages)]

-----------------------------------------------------------------------------
(* openai.toOpenAIRequest and mistral.toMistralRequest (the same code for  *)
(* the fields modelled).                                                   *)

OpenAIRequestToolCalls(calls) ==
    [j \in 1..Len(calls) |->
        ToolCall(calls[j].id, IF calls[j].type = "" THEN "function" ELSE calls[j].type,
                 calls[j].index, calls[j].name, calls[j].arguments)]

OpenAIMessage(msg) ==
    IF msg.role = "tool"
    THEN WireMessage("tool", Text(msg.content), << >>, << >>, msg.toolCallId)
    ELSE WireMessage(msg.role, IF msg.content # << >> THEN Text(msg.content) ELSE NilText,
                     << >>, OpenAIRequestToolCalls(msg.toolCalls), msg.toolCallId)

ToOpenAIRequest(req, model) ==
    [model |-> model, system |-> << >>, maxTokens |-> req.maxTokens,
     messages |-> [i \in 1..Len(req.messages) |-> OpenAIMessage(req.messages[i])]]

-----------------------------------------------------------------------------
(* ollama: the api.ChatRequest built by Chat and Stream, convertMessages.  *)

OllamaMessage(msg) ==
    WireMessage(msg.role, Text(msg.content), << >>,
                [i \in 1..Len(msg.toolCalls) |->
                    <<msg.toolCalls[i].name, Unmarshal(msg.toolCalls[i].arguments)>>],
                "")

ToOllamaRequest(req, model) ==
    [model |-> model, system |-> << >>, maxTokens |-> req.maxTokens,
     messages |-> [i \in 1..Len(req.messages) |-> OllamaMessage(req.messages[i])]]

-----------------------------------------------------------------------------
(* Chat and Stream up to the request they send: the effective model, the   *)
(* request mapper, the address and the credential.                         *)

ToWireBody(v, req, model) ==
    CASE v = "anthropic" -> ToAnthropicRequest(req, model)
      [] v = "ollama"    -> ToOllamaRequest(req, model)
      [] OTHER           -> ToOpenAIRequest(req, model)

EffectiveModel(req) == IF req.model = "" THEN facade.model ELSE req.model

Call(req) ==
    /\ reqIn = << >>
    /\ reqIn' = <<req>>
    /\ LET body == ToWireBody(vendor, req, EffectiveModel(req))
       IN  reqOut' = <<WireRequest(facade.baseURL,
                                   IF vendor = "ollama" THEN "" ELSE facade.apiKey,
                                   body.model, body.system, body.maxTokens, body.messages)>>
    /\ UNCHANGED <<streamVars, chatVars, facade, configured>>

\* The requests explored.
MaxMessages == 2

ArgumentTexts ==
    {<< >>, <<"{", "}">>, <<"{", "q", "}">>, <<"{", " ", "q", "}">>, <<"{">>}

RequestMessages ==
    {Message("system", <<"A">>, << >>, ""), Message("system", <<"B">>, << >>, ""),
     Message("user", <<"hi">>, << >>, ""), Message("assistant", <<"ok">>, << >>, ""),
     Message("tool", <<"r">>, << >>, "x"),
     Message("assistant", << >>,
             <<ToolCall("x", "", 0, "f", <<"{">>),
               ToolCall("y", "function", 1, "g", <<"{", "q", "}">>)>>, "")}
    \cup {Message("assistant", << >>, <<ToolCall("x", "function", 0, "f", a)>>, "") :
            a \in ArgumentTexts}

MessageSeqs == UNION {[1..n -> RequestMessages] : n \in 0..MaxMessages}

\* A request names a model or leaves it empty; the request naming one is
\* drawn with at most one message, the model and the messages being mapped
\* independently of each other.
Requests ==
    {ChatRequest("", NilInt, ms) : ms \in MessageSeqs}
    \cup {ChatRequest("rm", NilInt, ms) : ms \in {s \in MessageSeqs : Len(s) <= 1}}
    \cup {ChatRequest("", IntPtr(n), << >>) : n \in {0, 5}}

-----------------------------------------------------------------------------

Init ==
    /\ vendor \in Vendors
    /\ initial \in Initials
    /\ streamRet = NotReturned
    /\ inputEnd = ""
    /\ wire = << >>
    /\ pc = "call"
    /\ pend = NoPend
    /\ dec = DecInit
    /\ chClosed = FALSE
    /\ bodyClosed = FALSE
    /\ doneClosed = FALSE
    /\ panicked = FALSE
    /\ ctxCancelled = FALSE
    /\ closeCalls = 0
    /\ reader = [done |-> FALSE, err |-> ""]
    /\ delivered = << >>
    /\ chatIn = << >>
    /\ chatOut = << >>
    /\ facade = New(vendor)
    /\ configured = NotConfigured
    /\ reqIn = << >>
    /\ reqOut = << >>

\* The steps the producer goroutine takes on its own.
ProducerStep ==
    \/ \E f \in FramesSmall(vendor) : Scan(f)
    \/ ScanEnd
    \/ ChatEnd
    \/ ChatFail
    \/ SelectCtxDone
    \/ SelectDone
    \/ Return

Next ==
    \/ Stream
    \/ \E f \in FramesSmall(vendor) : Scan(f)
    \/ ScanEnd
    \/ ChatEnd
    \/ ChatFail
    \/ SelectCtxDone
    \/ SelectDone
    \/ Return
    \/ Recv
    \/ Close
    \/ Cancel

Spec == Init /\ [][Next]_vars

NextDecode ==
    \/ Stream
    \/ \E f \in Frames(vendor) : Scan(f)
    \/ ScanEnd
    \/ ChatEnd
    \/ ChatFail
    \/ Return
    \/ Recv

SpecDecode == Init /\ [][NextDecode]_vars

\* The producer's steps when the stream is drained: reading the transport
\* and returning.
DrainProducerStep ==
    \/ \E f \in Frames(vendor) : Scan(f)
    \/ ScanEnd
    \/ ChatEnd
    \/ ChatFail
    \/ Return

\* A drained stream under the scheduling the runtime gives: the call
\* returns, the goroutine runs whenever it can (the transport hands over
\* its frames, at most MaxFrames of them, and then ends), and the consumer
\* keeps calling Recv.
SpecDrain ==
    /\ Init
    /\ [][NextDecode]_vars
    /\ WF_vars(Stream)
    /\ WF_vars(DrainProducerStep)
    /\ WF_vars(Recv)

NextChat == \E resp \in Responses(vendor) : Chat(resp)

SpecChat == Init /\ [][NextChat]_vars

\* The vendor answers with the content it was sent: the responses whose
\* content blocks are those of an assistant message of the wire request.
EchoResponses ==
    IF vendor = "anthropic" /\ Len(reqOut) = 1
    THEN {[content |-> reqOut[1].messages[k].blocks, reason |-> "tool_use",
           prompt |-> 0, completion |-> 0, total |-> 0] :
            k \in {i \in 1..Len(reqOut[1].messages) :
                      reqOut[1].messages[i].role = "assistant"}}
    ELSE {}

NextRequest ==
    \/ \E key \in KeyArgs : WithAPIKey(key)
    \/ \E url \in URLArgs : WithBaseURL(url)
    \/ \E model \in ModelArgs : WithModel(model)
    \/ \E req \in Requests : Call(req)
    \/ \E resp \in EchoResponses : Chat(resp)

SpecRequest == Init /\ [][NextRequest]_vars

-----------------------------------------------------------------------------
(* Properties. *)

\* The consumer asked for the stream to stop.
CancelSignalled == ctxCancelled \/ closeCalls > 0

\* The events the consumer has received (the Recv results other than the
\* closed error), in order.
RECURSIVE EventsOf(_)
EventsOf(rs) ==
    IF rs = << >> THEN << >>
    ELSE (IF Head(rs).err = ErrStreamClosed THEN << >> ELSE <<Head(rs).ev>>)
         \o EventsOf(Tail(rs))

Events == EventsOf(delivered)

\* C1: once the consumer has cancelled (context or Close), the producer
\* terminates without any further Recv: in every state after cancellation
\* the producer has either terminated or can take a step of its own, so a
\* producer blocked on a channel send is released by the cancellation.
C1_CancelReleasesProducer ==
    (CancelSignalled /\ ~panicked) => (pc = "done" \/ ENABLED ProducerStep)

\* C2: calling Close two or more times never panics.
C2_CloseNeverPanics == closeCalls >= 1 => ~panicked

\* C3: every Recv made after Close returns the closed error and an empty
\* event: never a Delta, a finishReason or an error event.
C3_RecvAfterCloseIsClosed ==
    \A i \in 1..Len(delivered) :
        delivered[i].afterClose =>
            delivered[i].err = ErrStreamClosed /\ delivered[i].ev = EmptyEvent

\* C4: once a Recv has returned the closed error, every later Recv returns
\* the closed error with an empty event, and a Recv on a reader whose done
\* flag is set does not block.
C4_ClosedIsSticky ==
    /\ \A i \in 1..Len(delivered) : \A j \in 1..Len(delivered) :
          (i < j /\ delivered[i].err = ErrStreamClosed) =>
              delivered[j].err = ErrStreamClosed /\ delivered[j].ev = EmptyEvent
    /\ (reader.done /\ ~panicked /\ Len(delivered) < MaxRecv) => ENABLED Recv

\* C4 witness: the stream delivered an event, was exhausted, and Recv was
\* called twice more.
C4_Witness ==
    /\ Len(delivered) >= 3
    /\ delivered[1].err = ""
    /\ delivered[Len(delivered) - 1].err = ErrStreamClosed
    /\ delivered[Len(delivered)].err = ErrStreamClosed
    /\ reader.done

-----------------------------------------------------------------------------
(* What a consumer reconstructs from the events of one stream. *)

RECURSIVE ConcatContent(_)
ConcatContent(evs) ==
    IF evs = << >> THEN << >> ELSE Head(evs).content \o ConcatContent(Tail(evs))

RECURSIVE FlattenToolCalls(_)
FlattenToolCalls(evs) ==
    IF evs = << >> THEN << >> ELSE Head(evs).toolCalls \o FlattenToolCalls(Tail(evs))

RECURSIVE ConcatArguments(_)
ConcatArguments(tcs) ==
    IF tcs = << >> THEN << >> ELSE Head(tcs).arguments \o ConcatArguments(Tail(tcs))

RECURSIVE ConcatFrameText(_)
ConcatFrameText(fs) ==
    IF fs = << >> THEN << >> ELSE Head(fs).text \o ConcatFrameText(Tail(fs))

RECURSIVE LastFinish(_)
LastFinish(evs) ==
    IF evs = << >> THEN ""
    ELSE IF evs[Len(evs)].finishReason # "" THEN evs[Len(evs)].finishReason
    ELSE LastFinish(SubSeq(evs, 1, Len(evs) - 1))

FirstNonEmpty(strs) ==
    LET ne == SelectSeq(strs, LAMBDA x : x # "") IN IF ne = << >> THEN "" ELSE Head(ne)

\* The fragments with index n merged into one tool call.
MergeIndex(tcs, n) ==
    LET mine == SelectSeq(tcs, LAMBDA tc : tc.index = n)
    IN  ToolCall(FirstNonEmpty([k \in 1..Len(mine) |-> mine[k].id]),
                 FirstNonEmpty([k \in 1..Len(mine) |-> mine[k].type]),
                 n,
                 FirstNonEmpty([k \in 1..Len(mine) |-> mine[k].name]),
                 ConcatArguments(mine))

RECURSIVE MergeFrom(_, _)
MergeFrom(tcs, n) ==
    IF n > MaxFrames THEN << >>
    ELSE (IF \E k \in 1..Len(tcs) : tcs[k].index = n THEN <<MergeIndex(tcs, n)>> ELSE << >>)
         \o MergeFrom(tcs, n + 1)

MergedToolCalls(evs) == MergeFrom(FlattenToolCalls(evs), 0)

\* The stream has been drained: a Recv returned the closed error.
Drained == reader.done

-----------------------------------------------------------------------------

\* A tool-call start followed only by argument fragments of that call (a
\* fragment's wire index, when both frames carry one, is the start's).
IsToolCallStream(w) ==
    /\ Len(w) >= 2
    /\ w[1].kind = "tool_use_start"
    /\ \A k \in 2..Len(w) :
          /\ w[k].kind = "input_json_delta"
          /\ (w[k].index = NoIndex \/ w[1].index = NoIndex \/ w[k].index = w[1].index)

\* C5: for a tool-call start followed by argument fragments of the same
\* call, every frame yields one event, all events carry the same index, and
\* the fragments' arguments concatenate to the argument text sent.
C5_ToolCallIndexStable ==
    (vendor = "anthropic" /\ IsToolCallStream(wire) /\ Drained) =>
        /\ Len(Events) = Len(wire)
        /\ \A k \in 1..Len(Events) :
              /\ Len(Events[k].toolCalls) = 1
              /\ Events[k].toolCalls[1].index = Events[1].toolCalls[1].index
        /\ ConcatArguments(FlattenToolCalls(Events)) = ConcatFrameText(wire)

\* The tool-call starts of the stream name pairwise distinct calls, and the
\* wire indices they carry are pairwise distinct.
DistinctStarts(w) ==
    \A i \in 1..Len(w) : \A j \in 1..Len(w) :
        (i < j /\ w[i].kind = "tool_use_start" /\ w[j].kind = "tool_use_start") =>
            /\ w[i].id # w[j].id
            /\ (w[i].index = NoIndex \/ w[j].index = NoIndex \/ w[i].index # w[j].index)

\* C6: no two distinct tool calls of one stream are emitted with the same
\* index: two start events with different identifiers (anthropic), two
\* calls of different chunks (ollama).
C6_IndexNeverReused ==
    /\ (vendor = "anthropic" /\ DistinctStarts(wire)) =>
          \A i \in 1..Len(Events) : \A j \in 1..Len(Events) :
              \A a \in 1..Len(Events[i].toolCalls) : \A b \in 1..Len(Events[j].toolCalls) :
                  LET tc1 == Events[i].toolCalls[a]
                      tc2 == Events[j].toolCalls[b]
                  IN  (tc1.id # "" /\ tc2.id # "" /\ tc1.id # tc2.id) => tc1.index # tc2.index
    /\ vendor = "ollama" =>
          \A i \in 1..Len(Events) : \A j \in 1..Len(Events) :
              \A a \in 1..Len(Events[i].toolCalls) : \A b \in 1..Len(Events[j].toolCalls) :
                  i < j => Events[i].toolCalls[a].index # Events[j].toolCalls[b].index

\* The frames the vendor streams for a response: per content block its
\* text, or its start and its input as argument fragments, then the stop
\* reason and the end of the message.
RECURSIVE FragmentFrames(_, _)
FragmentFrames(text, i) ==
    IF text = << >> THEN << >>
    ELSE <<Frame("input_json_delta", <<Head(text)>>, i, "", "", "", << >>)>>
         \o FragmentFrames(Tail(text), i)

RECURSIVE BlockFrames(_, _)
BlockFrames(blocks, i) ==
    IF i > Len(blocks) THEN << >>
    ELSE (IF blocks[i].type = "text"
          THEN <<Frame("text_delta", blocks[i].text, NoIndex, "", "", "", << >>)>>
          ELSE <<Frame("tool_use_start", << >>, i - 1, blocks[i].id, blocks[i].name, "", << >>)>>
               \o FragmentFrames(Marshal(blocks[i].input), i - 1))
         \o BlockFrames(blocks, i + 1)

StreamOf(resp) ==
    BlockFrames(resp.content, 1)
    \o <<Frame("message_delta", << >>, NoIndex, "", "", resp.reason, << >>),
         Simple("message_stop")>>

\* C7: the events of the stream of a response merge into the content, tool
\* calls and finish reason the Response Mapper returns for that response.
C7_StreamEqualsResponse ==
    (vendor = "anthropic" /\ Drained) =>
        \A resp \in AnthropicResponses :
            wire = StreamOf(resp) =>
                LET mapped == AnthropicToProviderResponse(resp)
                IN  /\ ConcatContent(Events) = mapped.content
                    /\ MergedToolCalls(Events) = mapped.toolCalls
                    /\ LastFinish(Events) = mapped.finishReason

\* Text fragments, then one stop indication, then the end-of-stream marker.
IsTextFrame(f) ==
    IF vendor = "anthropic" THEN f.kind = "text_delta"
    ELSE f.kind = "chunk" /\ f.text # << >> /\ f.reason = "" /\ f.calls = << >>

IsStopFrame(f) ==
    IF vendor = "anthropic" THEN f.kind = "message_delta" /\ f.reason = "end_turn"
    ELSE f.kind = "chunk" /\ f.text = << >> /\ f.reason = "stop" /\ f.calls = << >>

IsEndMarker(f) ==
    IF vendor = "anthropic" THEN f.kind = "message_stop" ELSE f.kind = "done"

IsTextThenStop(w) ==
    /\ Len(w) >= 3
    /\ \A k \in 1..(Len(w) - 2) : IsTextFrame(w[k])
    /\ IsStopFrame(w[Len(w) - 1])
    /\ IsEndMarker(w[Len(w)])

\* C8: k text fragments, a stop indication and the end marker are observed
\* as exactly k content deltas in order, then one finishReason "stop".
C8_TextThenStop ==
    (vendor \in HTTPVendors /\ IsTextThenStop(wire) /\ Drained) =>
        /\ Len(Events) = Len(wire) - 1
        /\ \A k \in 1..(Len(wire) - 2) :
              Events[k] = StreamEvent(wire[k].text, << >>, "", "")
        /\ Events[Len(wire) - 1] = StreamEvent(<< >>, << >>, "stop", "")
        /\ ConcatContent(Events) = ConcatFrameText(wire)

\* C9: every event delivered has exactly one of Delta, finishReason and
\* error populated.
HasDelta(ev) == ev.content # << >> \/ ev.toolCalls # << >>

C9_ExactlyOnePart ==
    \A k \in 1..Len(Events) :
        LET ev == Events[k]
        IN  \/ HasDelta(ev) /\ ev.finishReason = "" /\ ev.err = ""
            \/ ~HasDelta(ev) /\ ev.finishReason # "" /\ ev.err = ""
            \/ ~HasDelta(ev) /\ ev.finishReason = "" /\ ev.err # ""

\* The table of the specification for the vendor's stop reasons.
NormalizedFinish(reason) ==
    CASE reason = "end_turn"   -> "stop"
      [] reason = "max_tokens" -> "length"
      [] reason = "tool_use"   -> "tool_calls"
      [] OTHER                 -> reason

\* C10: the Response Mapper maps end-of-turn to "stop", the max-tokens
\* reason to "length", the tool-invocation reason to "tool_calls", and
\* passes every other reason through.
C10_FinishReasonTable ==
    (vendor = "anthropic" /\ Len(chatOut) = 1) =>
        chatOut[1].finishReason = NormalizedFinish(chatIn[1].reason)

-----------------------------------------------------------------------------

\* The frame the producer read last.
LastFrame == wire[Len(wire)]

\* C11: the stream decoder normalizes a stop reason as the Response Mapper
\* does: the finishReason event sent for a turn-level delta with stop reason
\* r carries the finish reason the mapper returns for stop reason r.
C11_StreamFinishAsMapper ==
    (vendor = "anthropic" /\ pc = "send" /\ LastFrame.kind = "message_delta") =>
        pend.ev.finishReason = AnthropicMapFinish(LastFrame.reason)

\* The frames that carried an explicit stop reason.
ReasonsSeen(w) == SelectSeq(w, LAMBDA f : f.reason # "")

\* C12: when the stream ends with the explicit end marker, the last event
\* delivered is a finishReason event: it carries the stop reason observed
\* last (as sent or normalized), or "stop" when none was observed; and the
\* channel is closed.
C12_EndMarkerFinish ==
    (vendor \in HTTPVendors /\ Drained /\ wire # << >> /\ IsEndMarker(LastFrame)) =>
        /\ chClosed
        /\ Events # << >>
        /\ LET last == Events[Len(Events)]
               seen == ReasonsSeen(wire)
           IN  /\ last.finishReason # ""
               /\ IF seen = << >>
                  THEN last.finishReason = "stop"
                  ELSE last.finishReason \in {seen[Len(seen)].reason,
                                              NormalizedFinish(seen[Len(seen)].reason)}

\* Framing noise: a line that is no data line, or a data line whose payload
\* is not JSON.
IsNoise(f) == f.kind \in {"nondata", "badjson"}

\* C13: a line-oriented decoder skips framing noise: after reading a noise
\* line the producer has no event to send and has not stopped reading on
\* account of the line.
C13_NoiseSkipped ==
    (vendor \in HTTPVendors /\ wire # << >> /\ IsNoise(LastFrame)) =>
        /\ pc # "send"
        /\ inputEnd = "" => pc = "scan"
        /\ \A k \in 1..Len(Events) : Events[k].err = ""

\* C14: a data frame that is JSON of the wrong shape aborts the stream: it
\* is the last frame read, the producer sends one error event for it and
\* returns, and the channel is closed with exactly one error event
\* delivered.
C14_SchemaMismatchAborts ==
    vendor \in HTTPVendors =>
        \A k \in 1..Len(wire) :
            wire[k].kind = "badschema" =>
                /\ k = Len(wire)
                /\ pc # "scan"
                /\ pc = "send" => (pend.ev.err # "" /\ pend.ret)
                /\ Drained =>
                      Len(SelectSeq(Events, LAMBDA ev : ev.err # "")) = 1

\* C15: an error event is terminal: every Recv after the one that returned
\* an error event returns the closed error and an empty event (so at most
\* one error event, and no Delta or finishReason after it), and once the
\* error event is handed over the producer is returning.
C15_ErrorEventTerminal ==
    \A i \in 1..Len(delivered) :
        delivered[i].ev.err # "" =>
            /\ delivered[i].err = delivered[i].ev.err
            /\ pc \in {"ret", "done"}
            /\ \A j \in 1..Len(delivered) :
                  i < j => delivered[j].err = ErrStreamClosed /\ delivered[j].ev = EmptyEvent

\* C15 witness: a Delta, then the error event, then the closed error.
C15_Witness ==
    /\ Len(delivered) >= 3
    /\ delivered[1].err = ""
    /\ delivered[Len(delivered) - 1].ev.err # ""
    /\ delivered[Len(delivered)].err = ErrStreamClosed

\* C16: a read failure of the transport after streaming began is delivered
\* as an error event, the last event before the channel is closed.
C16_ReadFailureIsError ==
    (inputEnd = "error" /\ Drained) =>
        /\ Events # << >>
        /\ Events[Len(Events)].err # ""

\* The frames for which the decoder sends an event.
Emits(f) == Decode(vendor, f, DecInit).emit

DecodedCount == Len(SelectSeq(wire, Emits))

\* C17: when the input ends with no end marker read, the producer returns
\* with nothing to send, and the drained stream consists of the events of
\* the frames read and nothing else: no finishReason and no error event is
\* added for the end of input; the channel is closed.
C17_EndOfInputOrdinary ==
    inputEnd = "eof" =>
        /\ pc \in {"ret", "done"}
        /\ pend = NoPend
        /\ pc = "done" => chClosed
        /\ Drained =>
              /\ Len(Events) = DecodedCount
              /\ \A k \in 1..Len(Events) : Events[k].err = ""

\* C17 witness: a line-oriented stream of content only, ended by end of
\* input and drained.
C17_Witness ==
    /\ vendor \in HTTPVendors
    /\ inputEnd = "eof"
    /\ Drained
    /\ Len(Events) >= 2
    /\ LastFinish(Events) = ""

\* The error events the producer sends on account of a cancellation it
\* observed: the context's error, or the error of the done branch.
CancellationErrors == {"context canceled", "stream closed"}

\* C18: a producer that has observed the cancellation (its select took the
\* context branch or the done branch, or its request failed with the
\* context's error) sends nothing more: it is never blocked on the send of
\* an event made after that observation, and no such event is delivered.
C18_SilentAfterCancel ==
    /\ pc = "send" => pend.ev.err \notin CancellationErrors
    /\ \A k \in 1..Len(Events) : Events[k].err \notin CancellationErrors

\* C19: in a line-oriented decoder at most one event is decoded and not
\* yet received, and the producer is reading the next frame only when every
\* event decoded so far has been received.
C19_Backpressure ==
    vendor \in HTTPVendors =>
        /\ DecodedCount - Len(Events) \in {0, 1}
        /\ pc = "scan" => DecodedCount = Len(Events)
        /\ pc = "send" => DecodedCount = Len(Events) + 1

\* C19 witness: the producer has decoded a second event after the first was
\* received, and is blocked on its send.
C19_Witness ==
    /\ vendor \in HTTPVendors
    /\ pc = "send"
    /\ Len(Events) = 1
    /\ DecodedCount = 2

\* C20: a Stream call whose initial request fails (no connection, or a
\* non-success status) returns an error and no reader, and starts no
\* producer; the error for a non-success status carries the status code and
\* the raw body.  A call that returned a reader returned no error.
C20_InitialFailureSynchronous ==
    /\ (initial.outcome # "ok" /\ streamRet.returned) =>
          /\ ~streamRet.reader
          /\ streamRet.err # ""
          /\ pc = "none"
          /\ delivered = << >>
          /\ initial.outcome = "status" =>
                (streamRet.status = initial.status /\ streamRet.body = initial.body)
    /\ streamRet.reader => streamRet.err = ""

-----------------------------------------------------------------------------

\* The model the caller asked for: the request's when set, else the one
\* configured when a non-empty one was configured, else the vendor default.
ResolvedModel ==
    IF reqIn[1].model # "" THEN reqIn[1].model
    ELSE IF configured.model # << >> /\ configured.model[1] # "" THEN configured.model[1]
    ELSE DefaultModel(vendor)

\* C21: after any sequence of setter calls the model a call sends is the
\* request's model if set, else the configured model if one is set, else
\* the vendor default; it is never empty.
C21_EffectiveModel ==
    Len(reqOut) = 1 =>
        /\ reqOut[1].model = ResolvedModel
        /\ reqOut[1].model # ""

\* The value a configuration field holds when every setter assigns its own
\* field and nothing else: the argument of the latest call of its setter,
\* or what New put there.
LatestSet(field, initially) ==
    IF configured[field] = << >> THEN initially ELSE configured[field][1]

\* C22: every setter returns the facade it was called on and changes its
\* own field only, so each field holds the value set last (the key field
\* exists in anthropic, openai and mistral); and a call of any vendor uses
\* the key, base URL and model set last.
C22_SettersThenCall ==
    /\ configured # NotConfigured => configured.returned = "receiver"
    /\ vendor \in HTTPVendors => facade.apiKey = LatestSet("apiKey", "")
    /\ facade.baseURL = LatestSet("baseURL", DefaultBaseURL(vendor))
    /\ facade.model = LatestSet("model", DefaultModel(vendor))
    /\ Len(reqOut) = 1 =>
          /\ reqOut[1].key = LatestSet("apiKey", "")
          /\ reqOut[1].url = LatestSet("baseURL", DefaultBaseURL(vendor))
          /\ reqIn[1].model = "" =>
                reqOut[1].model = LatestSet("model", DefaultModel(vendor))

SystemMessages(msgs) == SelectSeq(msgs, LAMBDA m : m.role = "system")

\* C23: the anthropic request carries the content of the first system
\* message in its system field, later system messages are ignored, and no
\* system message appears among the inline messages.
C23_FirstSystemWins ==
    (vendor = "anthropic" /\ Len(reqOut) = 1) =>
        LET sys == SystemMessages(reqIn[1].messages)
        IN  /\ reqOut[1].system = IF sys = << >> THEN << >> ELSE sys[1].content
            /\ \A k \in 1..Len(reqOut[1].messages) : reqOut[1].messages[k].role # "system"
            /\ Len(reqOut[1].messages) <= Len(reqIn[1].messages) - Len(sys)

\* The vendors whose wire format carries tool input decoded.
DecodingVendors == {"anthropic", "ollama"}

\* encoding/json accepts the text.
ValidJSON(text) ==
    text \in {<<"{", "}">>, <<"{", "q", "}">>, <<"{", " ", "q", "}">>, <<"null">>}

\* The tool calls of a request, message after message.
RECURSIVE RequestCalls(_)
RequestCalls(msgs) ==
    IF msgs = << >> THEN << >> ELSE Head(msgs).toolCalls \o RequestCalls(Tail(msgs))

\* The tool calls of a wire message as id, name and decoded input: the
\* tool_use blocks (anthropic), the calls (ollama, whose calls are given a
\* name and arguments and nothing else).
WireCallsOf(wm) ==
    LET uses == SelectSeq(wm.blocks, LAMBDA b : b.type = "tool_use")
    IN  [k \in 1..Len(uses) |->
            [id |-> uses[k].id, name |-> uses[k].name, input |-> uses[k].input]]
        \o [k \in 1..Len(wm.calls) |->
            [id |-> "", name |-> wm.calls[k][1], input |-> wm.calls[k][2]]]

RECURSIVE WireCalls(_)
WireCalls(wms) ==
    IF wms = << >> THEN << >> ELSE WireCallsOf(Head(wms)) \o WireCalls(Tail(wms))

\* The request with every arguments text that is not JSON replaced by the
\* JSON text of no value.
Repaired(req) ==
    [req EXCEPT !.messages =
        [i \in 1..Len(req.messages) |->
            [req.messages[i] EXCEPT !.toolCalls =
                [j \in 1..Len(req.messages[i].toolCalls) |->
                    IF ValidJSON(req.messages[i].toolCalls[j].arguments)
                    THEN req.messages[i].toolCalls[j]
                    ELSE [req.messages[i].toolCalls[j] EXCEPT !.arguments = <<"null">>]]]]]

\* C24: in a vendor that sends decoded tool input, a tool call whose
\* arguments are not valid JSON does not abort the mapping: the request is
\* produced, the call is on the wire with its id and name and with no
\* input, and everything else is mapped as it is for valid arguments.
C24_BadArgumentsAbsorbed ==
    (vendor \in DecodingVendors /\ Len(reqIn) = 1) =>
        /\ Len(reqOut) = 1
        /\ LET given == RequestCalls(reqIn[1].messages)
               sent == WireCalls(reqOut[1].messages)
           IN  /\ Len(sent) = Len(given)
               /\ \A k \in 1..Len(given) :
                     ~ValidJSON(given[k].arguments) =>
                         /\ sent[k].id = given[k].id
                         /\ sent[k].name = given[k].name
                         /\ sent[k].input = "nil"
        /\ reqOut[1].messages =
              ToWireBody(vendor, Repaired(reqIn[1]), reqOut[1].model).messages

\* C25: a maxTokens the caller set (zero included) is sent unchanged by
\* every vendor; an unset maxTokens is sent as 8192 by anthropic, which
\* requires the field, and is absent from the request of the other vendors.
C25_MaxTokensDefault ==
    Len(reqOut) = 1 =>
        IF reqIn[1].maxTokens.set
        THEN reqOut[1].maxTokens = IntPtr(reqIn[1].maxTokens.value)
        ELSE IF vendor = "anthropic"
        THEN reqOut[1].maxTokens = IntPtr(8192)
        ELSE reqOut[1].maxTokens = NilInt

\* C25 witness: anthropic called with maxTokens set to zero.
C25_Witness ==
    /\ vendor = "anthropic"
    /\ Len(reqOut) = 1
    /\ reqIn[1].maxTokens = IntPtr(0)
    /\ reqOut[1].maxTokens = IntPtr(0)

\* C26: every ChatResponse a Response Mapper returns has totalTokens equal
\* to promptTokens plus completionTokens, whatever total the wire response
\* reports.
C26_UsageTotal ==
    Len(chatOut) = 1 =>
        chatOut[1].totalTokens = chatOut[1].promptTokens + chatOut[1].completionTokens

\* The tool-call ids a wire message carries for its calls, and the
\* tool-call ids it carries as the message a tool result answers.
WireCallIds(wm) ==
    CASE vendor = "anthropic" ->
            LET uses == SelectSeq(wm.blocks, LAMBDA b : b.type = "tool_use")
            IN  [k \in 1..Len(uses) |-> uses[k].id]
      [] vendor = "ollama" -> [k \in 1..Len(wm.calls) |-> ""]
      [] OTHER -> [k \in 1..Len(wm.calls) |-> wm.calls[k].id]

WireResultIds(wm) ==
    IF vendor = "anthropic"
    THEN LET results == SelectSeq(wm.blocks, LAMBDA b : b.type = "tool_result")
         IN  [k \in 1..Len(results) |-> results[k].toolUseId]
    ELSE IF wm.role = "tool" THEN <<wm.toolCallId>> ELSE << >>

RECURSIVE AllWireCallIds(_)
AllWireCallIds(wms) ==
    IF wms = << >> THEN << >> ELSE WireCallIds(Head(wms)) \o AllWireCallIds(Tail(wms))

RECURSIVE AllWireResultIds(_)
AllWireResultIds(wms) ==
    IF wms = << >> THEN << >> ELSE WireResultIds(Head(wms)) \o AllWireResultIds(Tail(wms))

\* C27: the wire request carries, in order, the toolCallId of every
\* tool-result message and the id of every assistant tool call, unchanged.
C27_ToolCallIdsCarried ==
    Len(reqOut) = 1 =>
        LET results == SelectSeq(reqIn[1].messages, LAMBDA m : m.role = "tool")
            given == RequestCalls(reqIn[1].messages)
        IN  /\ AllWireResultIds(reqOut[1].messages)
                  = [k \in 1..Len(results) |-> results[k].toolCallId]
            /\ AllWireCallIds(reqOut[1].messages) = [k \in 1..Len(given) |-> given[k].id]

\* Two argument texts denote the same JSON value.
JSONEqual(a, b) ==
    \/ a = b
    \/ ValidJSON(a) /\ ValidJSON(b) /\ Unmarshal(a) = Unmarshal(b)

\* An arguments text that is a JSON object, or the empty string.
ObjectOrEmpty(text) == text = << >> \/ (ValidJSON(text) /\ Unmarshal(text) # "nil")

\* C28: an assistant message mapped to the anthropic wire and mapped back
\* by the Response Mapper yields, for each tool call whose arguments are a
\* JSON object or the empty string, a ToolCall with the same id and name
\* and with JSON-equal arguments.
C28_ToolCallRoundTrip ==
    (vendor = "anthropic" /\ Len(reqIn) = 1 /\ Len(chatOut) = 1) =>
        \A i \in 1..Len(reqIn[1].messages) :
            LET msg == reqIn[1].messages[i]
            IN  (msg.role = "assistant" /\ AnthropicAssistantContent(msg) = chatIn[1].content) =>
                    /\ Len(chatOut[1].toolCalls) = Len(msg.toolCalls)
                    /\ \A j \in 1..Len(msg.toolCalls) :
                          ObjectOrEmpty(msg.toolCalls[j].arguments) =>
                              /\ chatOut[1].toolCalls[j].id = msg.toolCalls[j].id
                              /\ chatOut[1].toolCalls[j].name = msg.toolCalls[j].name
                              /\ JSONEqual(chatOut[1].toolCalls[j].arguments,
                                           msg.toolCalls[j].arguments)

\* The texts of a sequence of texts, joined in order.
RECURSIVE JoinTexts(_)
JoinTexts(texts) ==
    IF texts = << >> THEN << >> ELSE Head(texts) \o JoinTexts(Tail(texts))

\* C29: the anthropic Response Mapper's content is the concatenation of
\* the text blocks in order; there is one ToolCall per tool-use block, in
\* block order, and its index is its block's position among all content
\* blocks, text blocks included.
C29_AnthropicBlocksMapped ==
    (vendor = "anthropic" /\ Len(chatOut) = 1) =>
        LET blocks == chatIn[1].content
            texts == SelectSeq(blocks, LAMBDA b : b.type = "text")
            uses == {i \in 1..Len(blocks) : blocks[i].type = "tool_use"}
            calls == chatOut[1].toolCalls
        IN  /\ chatOut[1].content = JoinTexts([k \in 1..Len(texts) |-> texts[k].text])
            /\ Len(calls) = Cardinality(uses)
            /\ \A k \in 1..Len(calls) :
                  /\ calls[k].index + 1 \in uses
                  /\ calls[k].id = blocks[calls[k].index + 1].id
                  /\ calls[k].name = blocks[calls[k].index + 1].name
            /\ \A k \in 1..(Len(calls) - 1) : calls[k].index < calls[k + 1].index

\* A text block followed by a tool-use block: the call has index 1.
C29_Witness ==
    /\ vendor = "anthropic"
    /\ Len(chatOut) = 1
    /\ Len(chatIn[1].content) = 2
    /\ chatIn[1].content[1].type = "text"
    /\ chatIn[1].content[2].type = "tool_use"
    /\ chatOut[1].content = chatIn[1].content[1].text
    /\ Len(chatOut[1].toolCalls) = 1
    /\ chatOut[1].toolCalls[1].index = 1

\* A Delta event: it carries a content fragment or tool-call fragments.
IsDelta(ev) == ev.content # << >> \/ ev.toolCalls # << >>

\* C30: a finishReason event is terminal: after an event carrying a finish
\* reason has been delivered, no Delta event and no second finishReason
\* event is delivered.
C30_FinishReasonTerminal ==
    \A i \in 1..Len(Events) :
        Events[i].finishReason # "" =>
            \A j \in (i + 1)..Len(Events) :
                ~IsDelta(Events[j]) /\ Events[j].finishReason = ""

\* C31: in the ollama stream, when any chunk read so far carried a tool
\* call, the event of a done chunk whose done reason is not the length cap
\* carries the finish reason "tool_calls".
C31_OllamaToolCallsFinish ==
    vendor = "ollama" =>
        \A i \in 1..Len(Events) :
            (/\ i <= Len(wire)
             /\ Events[i].err = ""
             /\ wire[i].kind = "chunk_done"
             /\ wire[i].reason # "length"
             /\ \E j \in 1..i : wire[j].calls # << >>)
                => Events[i].finishReason = "tool_calls"

\* C32: the event channel is closed exactly when the producer has
\* terminated; it is closed by the producer's return and by nothing else,
\* and never reopened; and once it is closed nothing is sent on it: no send
\* becomes pending and every later Recv returns the closed error with an
\* empty event.  This holds under every interleaving of Recv, Close and
\* context cancellation.
C32_ChannelClosedOnce ==
    /\ [](chClosed <=> pc = "done")
    /\ [][(chClosed' # chClosed) => (~chClosed /\ pc = "ret" /\ pc' = "done")]_vars
    /\ [][chClosed =>
            /\ pend' = pend
            /\ delivered' # delivered =>
                  /\ delivered'[Len(delivered')].err = ErrStreamClosed
                  /\ delivered'[Len(delivered')].ev = EmptyEvent]_vars

\* The producer has terminated after both a Close and a context
\* cancellation, and a Recv made afterwards has returned the closed error.
C32_Witness ==
    /\ chClosed
    /\ pc = "done"
    /\ ctxCancelled
    /\ closeCalls > 0
    /\ Len(wire) >= 1
    /\ delivered # << >>
    /\ delivered[Len(delivered)].err = ErrStreamClosed

\* Some Recv has returned the closed error.
ClosedErrorReturned == \E i \in 1..Len(delivered) : delivered[i].err = ErrStreamClosed

\* C33: when the consumer keeps calling Recv and never cancels, and the
\* transport delivers finitely many frames and ends, a stream that was
\* opened leads to the producer terminated and a Recv returning the closed
\* error.
C33_DrainLiveness ==
    streamRet.reader ~> (pc = "done" /\ ClosedErrorReturned)

\* A stream of at least two events was drained to the closed error with
\* no cancellation.
C33_Witness ==
    /\ streamRet.reader
    /\ ~CancelSignalled
    /\ pc = "done"
    /\ Len(wire) >= 2
    /\ Len(Events) >= 2
    /\ ClosedErrorReturned

\* A Stream call of an HTTP vendor that obtained a transport response.
GotResponse ==
    vendor \in HTTPVendors /\ streamRet.returned /\ initial.outcome # "connfail"

\* The stream is over: the call failed on the status, the producer has
\* terminated, or the consumer has cancelled and the producer has no step
\* of its own left.
FinalState ==
    \/ pc \in {"none", "done"}
    \/ CancelSignalled /\ ~ENABLED ProducerStep

\* C34: for the HTTP vendors, in every final state of a stream whose call
\* obtained a transport response (failed on the status, ended, errored or
\* cancelled) the response body has been closed.
C34_BodyReleased ==
    (GotResponse /\ FinalState) => bodyClosed

====
